---- MODULE Spec2Model ----
(***************************************************************************)
(* Model of rgb_controller.py: the boot sequence, the server supervisor    *)
(* (start_openrgb_server / restart_openrgb_server), the reconnect helper   *)
(* (get_rgb_client), the sleep/wake check and the main control loop.       *)
(*                                                                         *)
(* The program is single-threaded; pc is the position of that one thread.  *)
(* The environment supplies the outcome of every external call (Popen,     *)
(* pkill, OpenRGBClient(), client.devices, set_mode, set_color, sensors),  *)
(* kills server processes, suspends the host and delivers Ctrl-C.          *)
(*                                                                         *)
(* Wall-clock time is kept relative to the present instant: a timestamp    *)
(* variable holds (timestamp - now) in whole seconds, so datetime.now()    *)
(* is 0 and an older timestamp is negative.  Offsets saturate at -MaxGap,  *)
(* which is beyond the 30 s threshold the program compares against.        *)
(* KeyboardInterrupt is modelled from the first loop iteration on.         *)
(***************************************************************************)
EXTENDS Integers, FiniteSets, Sequences, TLC

\* ---------------------------------------------------------------- bounds
MaxGap == 52
NumDevices == 2
MaxTenths == 700

\* ------------------------------------------------------ program constants
start_max_attempts == 10
\* get_rgb_client with max_attempts = 11
client_max_attempts_More == 10 + 1
client_max_attempts == 10
sleep_threshold == 30
probe_sleep == 1
retry_sleep == 5
kill_sleep == 1
tick_sleep == 2
reconnect_sleep == 5
cooldown_sleep == 5
Tenths == 10

Devices == 1..NumDevices

\* lighting servers already running when the controller starts (port 6742
\* has room for one)
LeftoverServers == {0, 1}
NoClient == "None"
Handle == "client"
\* None as a reading: below absolute zero, so no temperature
NoTemp == -2740
NoColor == <<-2, -2, -2>>
Sentinel == <<-1, -1, -1>>

\* sensor readings offered to the loop, in tenths of a degree Celsius
Temps == {300, 301}

\* lengths of a host suspension, in seconds: with the 2 s tick sleep they
\* give gaps of 29, 30 and 31 s at the next sleep/wake check
SuspendSeconds == {27, 28, 29}

VARIABLES
    pc,               \* position of the controller thread
    exitKind,         \* "running" | "exit1" | "clean" | "uncaught"
    client,           \* the loop's handle: NoClient or Handle
    prev_rgb,         \* last colour returned by apply_rgb_color
    rgb,              \* (red, green, blue) the current tick mapped to
    cpu_temp,         \* the tick's sensor reading in tenths of a degree
    current_time,     \* timestamp taken at line 189, relative to now
    last_check_time,  \* timestamp of the previous check, relative to now
    attempt,          \* loop counter of the running retry loop
    startCaller,      \* who called start_openrgb_server: "boot" | "restart"
    startResult,      \* return value of start/restart_openrgb_server
    serverProcs,      \* number of lighting-server processes alive
    devStatic,        \* per device: does it offer the "Static" mode
    devIdx,           \* position of the for loop over target_devices
    \* ---- history of the current tick (reset at the top of the loop)
    lastCall,         \* what the last pass of the device loop issued
    devHist,          \* the passes so far: [wrote, raised, accepted]
    enumFailed,       \* client.devices / print_device_info raised
    branch,           \* how the tick ended
    slept,            \* tick-boundary sleep taken by the tick (seconds)
    wakeDetected,     \* detect_sleep_wake returned True in this tick
    restarted,        \* restart_openrgb_server was invoked in this tick
    stamped,          \* assignments to last_check_time made by this tick
    suspended,        \* the host was suspended since last_check_time was taken
    \* ---- history across ticks
    lastTickColor,    \* colour the previous tick mapped to (NoColor: none)
    lastApplied,      \* apply_rgb_color returned normally in the previous tick
    stale,            \* the handle predates the last detected sleep/wake
    interruptedAt,    \* pc at which Ctrl-C was delivered ("none" if never)
    loopEntered,      \* some iteration of the main loop has started
    anyDeviceOp       \* some operation on a client handle was performed

vars == <<pc, exitKind, client, prev_rgb, rgb, cpu_temp, current_time,
          last_check_time, attempt, startCaller, startResult, serverProcs,
          devStatic, devIdx, lastCall, devHist, enumFailed, branch, slept,
          wakeDetected, restarted, stamped, suspended, lastTickColor,
          lastApplied, stale, interruptedAt, loopEntered, anyDeviceOp>>

progVars == <<client, prev_rgb, rgb, cpu_temp, attempt, startCaller, startResult,
              devStatic, devIdx>>
tickHist == <<lastCall, devHist, enumFailed, branch, slept, wakeDetected,
              restarted, stamped>>
runHist == <<lastTickColor, lastApplied, stale, interruptedAt, loopEntered,
             anyDeviceOp>>

\* ------------------------------------------------------------ pure parts

\* time.sleep(d) or any other passage of d seconds: timestamps get older
Older(t, d) == IF t - d < -MaxGap THEN -MaxGap ELSE t - d

\* detect_sleep_wake with >= in place of > at line 69
detect_sleep_wake_Inclusive(last_timestamp) ==
    LET time_diff == 0 - last_timestamp
    IN  time_diff >= sleep_threshold

detect_sleep_wake(last_timestamp) ==
    LET time_diff == 0 - last_timestamp
    IN  time_diff > sleep_threshold

\* temperature_to_rgb with every <= of line 108-118 turned into <
temperature_to_rgb_Exclusive(temp) ==
    IF temp < 30 * Tenths THEN <<0, 0, 255>>
    ELSE IF temp < 40 * Tenths THEN <<63, 0, 192>>
    ELSE IF temp < 45 * Tenths THEN <<0, 255, 0>>
    ELSE IF temp < 50 * Tenths THEN <<127, 255, 0>>
    ELSE IF temp < 60 * Tenths THEN <<255, 255, 0>>
    ELSE IF temp < 65 * Tenths THEN <<255, 127, 0>>
    ELSE <<255, 0, 0>>

temperature_to_rgb(temp) ==
    IF temp <= 30 * Tenths THEN <<0, 0, 255>>
    ELSE IF temp <= 40 * Tenths THEN <<63, 0, 192>>
    ELSE IF temp <= 45 * Tenths THEN <<0, 255, 0>>
    ELSE IF temp <= 50 * Tenths THEN <<127, 255, 0>>
    ELSE IF temp <= 60 * Tenths THEN <<255, 255, 0>>
    ELSE IF temp <= 65 * Tenths THEN <<255, 127, 0>>
    ELSE <<255, 0, 0>>

NoHist == [wrote |-> FALSE, raised |-> FALSE, accepted |-> FALSE]
NoModes == [d \in Devices |-> FALSE]

InLoop == pc \notin {"start_spawn", "start_probe", "sp_sleep", "start_ret",
                     "restart_kill", "rs_sleep", "exited"}
           \/ (pc \in {"start_spawn", "start_probe", "sp_sleep", "start_ret",
                       "restart_kill", "rs_sleep"} /\ startCaller = "restart")

\* exit(1), break or an uncaught exception: the thread is gone and so are its
\* locals and the history of its last tick
ProcessEnds ==
    /\ pc' = "exited"
    /\ rgb' = NoColor
    /\ cpu_temp' = NoTemp
    /\ current_time' = 0
    /\ last_check_time' = 0
    /\ startCaller' = "boot"
    /\ startResult' = FALSE
    /\ devStatic' = NoModes
    /\ devIdx' = 0
    /\ lastCall' = "none"
    /\ devHist' = NoHist
    /\ enumFailed' = FALSE
    /\ branch' = "exited"
    /\ slept' = 0
    /\ wakeDetected' = FALSE
    /\ restarted' = FALSE
    /\ stamped' = 0
    /\ suspended' = FALSE
    /\ lastTickColor' = NoColor
    /\ lastApplied' = FALSE
    /\ stale' = FALSE

Init ==
    /\ pc = "start_spawn"
    /\ exitKind = "running"
    /\ client = NoClient
    /\ prev_rgb = Sentinel
    /\ rgb = NoColor
    /\ cpu_temp = NoTemp
    /\ current_time = 0
    /\ last_check_time = 0
    /\ attempt = 0
    /\ startCaller = "boot"
    /\ startResult = FALSE
    /\ serverProcs \in LeftoverServers
    /\ devStatic = NoModes
    /\ devIdx = 0
    /\ lastCall = "none"
    /\ devHist = NoHist
    /\ enumFailed = FALSE
    /\ branch = "start"
    /\ slept = 0
    /\ wakeDetected = FALSE
    /\ restarted = FALSE
    /\ stamped = 0
    /\ suspended = FALSE
    /\ lastTickColor = NoColor
    /\ lastApplied = FALSE
    /\ stale = FALSE
    /\ interruptedAt = "none"
    /\ loopEntered = FALSE
    /\ anyDeviceOp = FALSE

\* ------------------------------------------------- start_openrgb_server

\* line 21-26: subprocess.Popen either spawns one more server process or
\* raises (missing or non-executable AppImage), which line 40 turns into False
StartSpawn ==
    /\ pc = "start_spawn"
    /\ \/ /\ serverProcs' = serverProcs + 1
          /\ attempt' = 0
          /\ pc' = "start_probe"
          /\ UNCHANGED startResult
       \/ /\ startResult' = FALSE
          /\ pc' = "start_ret"
          /\ UNCHANGED <<serverProcs, attempt>>
    /\ UNCHANGED <<exitKind, client, prev_rgb, rgb, cpu_temp, current_time,
                   last_check_time, startCaller, devStatic, devIdx, tickHist,
                   suspended, runHist>>

\* line 29-36: one connection probe; it can only succeed against a live server
StartProbe ==
    /\ pc = "start_probe"
    /\ attempt < start_max_attempts
    /\ \/ /\ serverProcs > 0
          /\ startResult' = TRUE
          /\ pc' = "start_ret"
       \/ /\ pc' = "sp_sleep"
          /\ UNCHANGED startResult
    /\ UNCHANGED <<exitKind, client, prev_rgb, rgb, cpu_temp, current_time,
                   last_check_time, attempt, startCaller, serverProcs,
                   devStatic, devIdx, tickHist, suspended, runHist>>

\* line 36: time.sleep(1) after a failed probe, then the next attempt
StartProbeSleep ==
    /\ pc = "sp_sleep"
    /\ current_time' = Older(current_time, probe_sleep)
    /\ last_check_time' = Older(last_check_time, probe_sleep)
    /\ attempt' = attempt + 1
    /\ pc' = "start_probe"
    /\ UNCHANGED <<exitKind, client, prev_rgb, rgb, cpu_temp, startCaller, startResult,
                   serverProcs, devStatic, devIdx, tickHist, suspended,
                   runHist>>

\* line 38-39: the for loop is exhausted
StartExhausted ==
    /\ pc = "start_probe"
    /\ attempt >= start_max_attempts
    /\ startResult' = FALSE
    /\ pc' = "start_ret"
    /\ UNCHANGED <<exitKind, client, prev_rgb, rgb, cpu_temp, current_time,
                   last_check_time, attempt, startCaller, serverProcs,
                   devStatic, devIdx, tickHist, suspended, runHist>>

\* ------------------------------------------------------------ __main__

\* BootCheck without the exit(1) of line 181-183
BootCheck_NoExit ==
    /\ pc = "start_ret"
    /\ startCaller = "boot"
    /\ client' = NoClient
    /\ pc' = "loop_top"
    /\ UNCHANGED <<exitKind, prev_rgb, rgb, cpu_temp, current_time, last_check_time,
                   attempt, startCaller, startResult, serverProcs, devStatic,
                   devIdx, tickHist, suspended, runHist>>

\* line 181-185: exit(1) when the server could not be started, else enter
\* the loop without a client
BootCheck ==
    /\ pc = "start_ret"
    /\ startCaller = "boot"
    /\ client' = NoClient
    /\ IF ~startResult
       THEN /\ exitKind' = "exit1"
            /\ ProcessEnds
            /\ UNCHANGED <<prev_rgb, attempt, serverProcs, interruptedAt,
                           loopEntered, anyDeviceOp>>
       ELSE /\ pc' = "loop_top"
            /\ UNCHANGED <<exitKind, prev_rgb, rgb, cpu_temp, current_time,
                           last_check_time, attempt, startCaller, startResult,
                           serverProcs, devStatic, devIdx, tickHist, suspended,
                           runHist>>

\* line 198-199 as reached from line 196: reconnect only without a handle
AfterCheck(c) == IF c = NoClient THEN "get_client" ELSE "read_temp"

\* the handle is kept across a detected sleep/wake
DropHandle_Kept == client

\* line 193: client = None
DropHandle == NoClient

\* line 189-198: take the timestamp, run the sleep/wake check; on a detected
\* gap drop the handle and call restart_openrgb_server, otherwise store the
\* timestamp and go on to the client test.  A new tick starts here, so the
\* history of the previous tick is closed.
LoopTop ==
    /\ pc = "loop_top"
    /\ current_time' = 0
    /\ IF detect_sleep_wake(last_check_time)
       THEN /\ client' = DropHandle
            /\ devStatic' = NoModes
            /\ pc' = "restart_kill"
            /\ startCaller' = "restart"
            /\ wakeDetected' = TRUE
            /\ restarted' = TRUE
            /\ stamped' = 0
            /\ stale' = TRUE
            /\ UNCHANGED <<last_check_time, attempt, suspended>>
       ELSE /\ last_check_time' = 0
            /\ pc' = AfterCheck(client)
            /\ attempt' = 0
            /\ wakeDetected' = FALSE
            /\ restarted' = FALSE
            /\ stamped' = 1
            /\ suspended' = FALSE
            /\ UNCHANGED <<client, devStatic, startCaller, stale>>
    /\ rgb' = NoColor
    /\ cpu_temp' = NoTemp
    /\ devIdx' = 0
    /\ lastCall' = "none"
    /\ devHist' = NoHist
    /\ enumFailed' = FALSE
    /\ branch' = "running"
    /\ slept' = 0
    /\ lastTickColor' = rgb
    /\ lastApplied' = (branch \in {"applied", "unchanged"})
    /\ loopEntered' = TRUE
    /\ UNCHANGED <<exitKind, prev_rgb, startResult, serverProcs,
                   interruptedAt, anyDeviceOp>>

\* ----------------------------------------------- restart_openrgb_server

\* line 80-82: pkill terminates every process whose command line matches
\* (exit status ignored), or subprocess.run raises and line 85-87 returns
\* False without starting anything
RestartKill ==
    /\ pc = "restart_kill"
    /\ \/ /\ serverProcs' = 0
          /\ pc' = "rs_sleep"
          /\ UNCHANGED startResult
       \/ /\ startResult' = FALSE
          /\ pc' = "start_ret"
          /\ UNCHANGED serverProcs
    /\ UNCHANGED <<exitKind, client, prev_rgb, rgb, cpu_temp, current_time,
                   last_check_time, attempt, startCaller, devStatic, devIdx,
                   tickHist, suspended, runHist>>

\* line 82-84: time.sleep(1), then start_openrgb_server()
RestartSleep ==
    /\ pc = "rs_sleep"
    /\ current_time' = Older(current_time, kill_sleep)
    /\ last_check_time' = Older(last_check_time, kill_sleep)
    /\ pc' = "start_spawn"
    /\ UNCHANGED <<exitKind, client, prev_rgb, rgb, cpu_temp, attempt, startCaller,
                   startResult, serverProcs, devStatic, devIdx, tickHist,
                   suspended, runHist>>

\* RestartReturn storing a timestamp taken after the restart, not the one of
\* line 189
RestartReturn_StampNow ==
    /\ pc = "start_ret"
    /\ startCaller = "restart"
    /\ last_check_time' = 0
    /\ suspended' = FALSE
    /\ attempt' = 0
    /\ stamped' = stamped + 1
    /\ pc' = AfterCheck(client)
    /\ UNCHANGED <<exitKind, client, prev_rgb, rgb, cpu_temp, current_time, startCaller,
                   startResult, serverProcs, devStatic, devIdx, lastCall, devHist,
                   enumFailed, branch, slept, wakeDetected, restarted,
                   runHist>>

\* RestartReturn forgetting the applied colour along with the old server
RestartReturn_ResetColor ==
    /\ pc = "start_ret"
    /\ startCaller = "restart"
    /\ last_check_time' = current_time
    /\ suspended' = FALSE
    /\ attempt' = 0
    /\ stamped' = stamped + 1
    /\ prev_rgb' = Sentinel
    /\ pc' = AfterCheck(client)
    /\ UNCHANGED <<exitKind, client, rgb, cpu_temp, current_time, startCaller,
                   startResult, serverProcs, devStatic, devIdx, lastCall, devHist,
                   enumFailed, branch, slept, wakeDetected, restarted,
                   runHist>>

\* line 194-198: the result of restart_openrgb_server is discarded; line 196
\* stores the timestamp taken at line 189
RestartReturn ==
    /\ pc = "start_ret"
    /\ startCaller = "restart"
    /\ last_check_time' = current_time
    /\ suspended' = FALSE
    /\ attempt' = 0
    /\ stamped' = stamped + 1
    /\ pc' = AfterCheck(client)
    /\ UNCHANGED <<exitKind, client, prev_rgb, rgb, cpu_temp, current_time, startCaller,
                   startResult, serverProcs, devStatic, devIdx, lastCall, devHist,
                   enumFailed, branch, slept, wakeDetected, restarted,
                   runHist>>

\* ------------------------------------------------------- get_rgb_client

\* line 50-58 and 199-203: one connection attempt.  Success hands the new
\* handle (with the device list the server reported) to the loop; a failure
\* before the last attempt sleeps 5 s; the last failure returns None and the
\* loop goes to its own 5 s sleep.
GetClientTry ==
    /\ pc = "get_client"
    /\ attempt < client_max_attempts
    /\ \/ /\ serverProcs > 0
          /\ client' = Handle
          /\ devStatic' \in [Devices -> BOOLEAN]
          /\ stale' = FALSE
          /\ pc' = "print_info"
          /\ UNCHANGED <<branch>>
       \/ /\ IF attempt < client_max_attempts - 1
             THEN pc' = "gc_sleep" /\ UNCHANGED branch
             ELSE pc' = "reconnect_sleep" /\ branch' = "reconnect_failed"
          /\ UNCHANGED <<client, devStatic, stale>>
    /\ UNCHANGED <<exitKind, prev_rgb, rgb, cpu_temp, current_time, last_check_time,
                   attempt, startCaller, startResult, serverProcs, devIdx,
                   lastCall, devHist, enumFailed, slept, wakeDetected,
                   restarted, stamped, suspended, lastTickColor, lastApplied,
                   interruptedAt, loopEntered, anyDeviceOp>>

\* GetClientSleep retrying at once, without the time.sleep(5)
GetClientSleep_NoSleep ==
    /\ pc = "gc_sleep"
    /\ attempt' = attempt + 1
    /\ pc' = "get_client"
    /\ UNCHANGED <<exitKind, client, prev_rgb, rgb, cpu_temp, current_time,
                   last_check_time, startCaller, startResult, serverProcs,
                   devStatic, devIdx, tickHist, suspended, runHist>>

\* line 58: time.sleep(5) between two attempts
GetClientSleep ==
    /\ pc = "gc_sleep"
    /\ current_time' = Older(current_time, retry_sleep)
    /\ last_check_time' = Older(last_check_time, retry_sleep)
    /\ attempt' = attempt + 1
    /\ pc' = "get_client"
    /\ UNCHANGED <<exitKind, client, prev_rgb, rgb, cpu_temp, startCaller, startResult,
                   serverProcs, devStatic, devIdx, tickHist, suspended,
                   runHist>>

\* line 202-203: time.sleep(5); continue
ReconnectSleep ==
    /\ pc = "reconnect_sleep"
    /\ current_time' = Older(current_time, reconnect_sleep)
    /\ last_check_time' = Older(last_check_time, reconnect_sleep)
    /\ slept' = slept + reconnect_sleep
    /\ pc' = "loop_top"
    /\ UNCHANGED <<exitKind, progVars, serverProcs, lastCall, devHist,
                   enumFailed, branch, wakeDetected, restarted, stamped, suspended, runHist>>

\* ------------------------------------------------------ tick, connected

\* PrintInfo with no except Exception clause around the loop body: the
\* exception leaves the loop and ends the process
PrintInfo_Unhandled ==
    /\ pc = "print_info"
    /\ anyDeviceOp' = TRUE
    /\ \/ /\ pc' = "read_temp"
          /\ UNCHANGED <<exitKind, client, rgb, cpu_temp, current_time, last_check_time,
                         startCaller, startResult, devStatic, devIdx,
                         tickHist, suspended, lastTickColor, lastApplied,
                         stale>>
       \/ /\ exitKind' = "uncaught"
          /\ ProcessEnds
          /\ UNCHANGED client
    /\ UNCHANGED <<prev_rgb, attempt, serverProcs, interruptedAt, loopEntered>>

\* line 205 print_device_info(client): reads client.devices and the fields of
\* every device.  If it raises, nothing inside the try block handles it and
\* line 230-234 does: log, client = None, then the 5 s cooldown sleep.
PrintInfo ==
    /\ pc = "print_info"
    /\ anyDeviceOp' = TRUE
    /\ \/ /\ pc' = "read_temp"
          /\ UNCHANGED <<client, devStatic, enumFailed, branch>>
       \/ /\ client' = NoClient
          /\ devStatic' = NoModes
          /\ enumFailed' = TRUE
          /\ branch' = "exception"
          /\ pc' = "cooldown"
    /\ UNCHANGED <<exitKind, prev_rgb, rgb, cpu_temp, current_time, last_check_time,
                   attempt, startCaller, startResult, serverProcs, devIdx,
                   lastCall, devHist, slept, wakeDetected, restarted, stamped, suspended, lastTickColor, lastApplied, stale,
                   interruptedAt, loopEntered>>

\* line 95: what subprocess.run(["sensors"], check=True) can give: an error
\* (ok = FALSE), or output whose first line with "Tctl" (none if tctl is empty)
\* carries a second token that float() accepts or not once "+" and the unit
\* are stripped
SensorOutputs ==
    {[ok |-> FALSE, tctl |-> <<>>], [ok |-> TRUE, tctl |-> <<>>],
     [ok |-> TRUE, tctl |-> <<[numeric |-> FALSE, whole |-> 0, frac |-> 0]>>]}
    \cup {[ok |-> TRUE,
           tctl |-> <<[numeric |-> TRUE, whole |-> t \div Tenths,
                                        frac |-> t % Tenths]>>] : t \in Temps}

\* line 89-102: get_cpu_temperature returns the Tctl reading, or None when
\* sensors fails, prints no Tctl line, or prints one float() rejects (its own
\* except swallows the error, so the handler at line 222 has nothing to catch)
get_cpu_temperature(out) ==
    IF ~out.ok THEN NoTemp
    ELSE IF Len(out.tctl) = 0 THEN NoTemp
    ELSE IF ~out.tctl[1].numeric THEN NoTemp
    ELSE out.tctl[1].whole * Tenths + out.tctl[1].frac

\* ReadTemp with a continue on None in place of falling through to line 225
ReadTemp_NoneContinues ==
    /\ pc = "read_temp"
    /\ \E out \in SensorOutputs : cpu_temp' = get_cpu_temperature(out)
    /\ IF cpu_temp' = NoTemp
       THEN /\ branch' = "no_temp"
            /\ pc' = "loop_top"
            /\ UNCHANGED rgb
       ELSE /\ rgb' = temperature_to_rgb(cpu_temp')
            /\ pc' = "apply"
            /\ UNCHANGED branch
    /\ UNCHANGED <<exitKind, client, prev_rgb, current_time, last_check_time,
                   attempt, startCaller, startResult, serverProcs, devStatic,
                   devIdx, lastCall, devHist, enumFailed, slept,
                   wakeDetected, restarted, stamped, suspended, runHist>>

\* line 209-212 and 220-221: read the sensor; None skips the colour update
ReadTemp ==
    /\ pc = "read_temp"
    /\ \E out \in SensorOutputs : cpu_temp' = get_cpu_temperature(out)
    /\ IF cpu_temp' = NoTemp
       THEN /\ branch' = "no_temp"
            /\ pc' = "tick_sleep"
            /\ UNCHANGED rgb
       ELSE /\ rgb' = temperature_to_rgb(cpu_temp')
            /\ pc' = "apply"
            /\ UNCHANGED branch
    /\ UNCHANGED <<exitKind, client, prev_rgb, current_time, last_check_time,
                   attempt, startCaller, startResult, serverProcs, devStatic,
                   devIdx, lastCall, devHist, enumFailed, slept,
                   wakeDetected, restarted, stamped, suspended, runHist>>

\* the comparison of line 136 never finds the colour unchanged
SameColor_Never == FALSE

\* line 136: (red, green, blue) == prev_rgb
SameColor == rgb = prev_rgb

\* line 136-137: the mapped colour is the one already applied
ApplySame ==
    /\ pc = "apply"
    /\ SameColor
    /\ branch' = "unchanged"
    /\ pc' = "tick_sleep"
    /\ UNCHANGED <<exitKind, progVars, current_time, last_check_time,
                   serverProcs, lastCall, devHist, enumFailed, slept,
                   wakeDetected, restarted, stamped, suspended, runHist>>

\* line 139-149 and 216-219: the colour differs, so client.devices is read.
\* An exception here leaves apply_rgb_color; the loop drops the handle and
\* continues with the next iteration at once.
ApplyEnumerate ==
    /\ pc = "apply"
    /\ ~SameColor
    /\ anyDeviceOp' = TRUE
    /\ \/ /\ devIdx' = 1
          /\ pc' = "apply_dev"
          /\ UNCHANGED <<client, devStatic, enumFailed, branch>>
       \/ /\ client' = NoClient
          /\ devStatic' = NoModes
          /\ enumFailed' = TRUE
          /\ branch' = "write_failed"
          /\ pc' = "loop_top"
          /\ UNCHANGED devIdx
    /\ UNCHANGED <<exitKind, prev_rgb, rgb, cpu_temp, current_time, last_check_time,
                   attempt, startCaller, startResult, serverProcs, lastCall,
                   devHist, slept, wakeDetected, restarted, stamped, suspended, lastTickColor, lastApplied, stale, interruptedAt,
                   loopEntered>>

\* the for loop of line 148-160 with the try/except of line 150 and 159 taken
\* away: a device whose update raises ends the batch
ApplyDevice_Abort ==
    /\ pc = "apply_dev"
    /\ devIdx <= NumDevices
    /\ anyDeviceOp' = TRUE
    /\ IF devStatic[devIdx]
       THEN \/ /\ serverProcs > 0
               /\ lastCall' = "mode_color"
               /\ devHist' = [devHist EXCEPT !.wrote = TRUE, !.accepted = TRUE]
            \/ /\ lastCall' = "mode_raised"
               /\ devHist' = [devHist EXCEPT !.wrote = TRUE, !.raised = TRUE]
            \/ /\ lastCall' = "color_raised"
               /\ devHist' = [devHist EXCEPT !.wrote = TRUE, !.raised = TRUE]
       ELSE /\ lastCall' = "skipped"
            /\ UNCHANGED devHist
    /\ devIdx' = IF lastCall' \in {"mode_raised", "color_raised"}
                  THEN NumDevices + 1 ELSE devIdx + 1
    /\ UNCHANGED <<pc, exitKind, client, prev_rgb, rgb, cpu_temp, current_time,
                   last_check_time, attempt, startCaller, startResult,
                   serverProcs, devStatic, enumFailed, branch, slept,
                   wakeDetected, restarted, stamped, suspended,
                   lastTickColor, lastApplied, stale, interruptedAt,
                   loopEntered>>

\* line 148-160: one pass of the for loop.  A device with "Static" gets
\* set_mode then set_color; either may raise (and set_color cannot succeed
\* with no server alive), and line 159-160 logs the exception and goes on to
\* the next device.  A device without "Static" is only logged.
ApplyDevice ==
    /\ pc = "apply_dev"
    /\ devIdx <= NumDevices
    /\ anyDeviceOp' = TRUE
    /\ IF devStatic[devIdx]
       THEN \/ /\ serverProcs > 0
               /\ lastCall' = "mode_color"
               /\ devHist' = [devHist EXCEPT !.wrote = TRUE, !.accepted = TRUE]
            \/ /\ lastCall' = "mode_raised"
               /\ devHist' = [devHist EXCEPT !.wrote = TRUE, !.raised = TRUE]
            \/ /\ lastCall' = "color_raised"
               /\ devHist' = [devHist EXCEPT !.wrote = TRUE, !.raised = TRUE]
       ELSE /\ lastCall' = "skipped"
            /\ UNCHANGED devHist
    /\ devIdx' = devIdx + 1
    /\ UNCHANGED <<pc, exitKind, client, prev_rgb, rgb, cpu_temp, current_time,
                   last_check_time, attempt, startCaller, startResult,
                   serverProcs, devStatic, enumFailed, branch, slept,
                   wakeDetected, restarted, stamped, suspended,
                   lastTickColor, lastApplied, stale, interruptedAt,
                   loopEntered>>

\* line 162 and 215: the for loop is over; apply_rgb_color returns the new
\* colour and the loop stores it in prev_rgb
ApplyReturn ==
    /\ pc = "apply_dev"
    /\ devIdx > NumDevices
    /\ prev_rgb' = rgb
    /\ lastCall' = "none"
    /\ branch' = "applied"
    /\ pc' = "tick_sleep"
    /\ UNCHANGED <<exitKind, client, rgb, cpu_temp, current_time, last_check_time,
                   attempt, startCaller, startResult, serverProcs, devStatic,
                   devIdx, devHist, enumFailed, slept, wakeDetected,
                   restarted, stamped, suspended, runHist>>

\* line 225: time.sleep(2)
TickSleep ==
    /\ pc = "tick_sleep"
    /\ current_time' = Older(current_time, tick_sleep)
    /\ last_check_time' = Older(last_check_time, tick_sleep)
    /\ slept' = slept + tick_sleep
    /\ pc' = "loop_top"
    /\ UNCHANGED <<exitKind, progVars, serverProcs, lastCall, devHist,
                   enumFailed, branch, wakeDetected, restarted, stamped, suspended, runHist>>

\* line 234: time.sleep(5) inside the except Exception handler
Cooldown ==
    /\ pc = "cooldown"
    /\ current_time' = Older(current_time, cooldown_sleep)
    /\ last_check_time' = Older(last_check_time, cooldown_sleep)
    /\ slept' = slept + cooldown_sleep
    /\ pc' = "loop_top"
    /\ UNCHANGED <<exitKind, progVars, serverProcs, lastCall, devHist,
                   enumFailed, branch, wakeDetected, restarted, stamped, suspended, runHist>>

\* ---------------------------------------------------------- environment

\* positions inside the try block of the loop (line 188-225, with the calls
\* made from there) and inside its except Exception handler (line 230-234)
TryBlock == {"loop_top", "get_client", "gc_sleep", "reconnect_sleep",
             "print_info", "read_temp", "apply", "apply_dev", "tick_sleep",
             "restart_kill", "rs_sleep", "start_spawn", "start_probe",
             "sp_sleep", "start_ret"}
Handler == {"cooldown"}
SleepPoints == {"tick_sleep", "reconnect_sleep", "cooldown", "gc_sleep",
                "rs_sleep", "sp_sleep"}

\* line 227-229: Ctrl-C raises KeyboardInterrupt at the current position.
\* No except Exception clause catches it; inside the try block it reaches
\* line 227 (log, break), inside the handler of line 230 nothing catches it.
Interrupt ==
    /\ InLoop
    /\ interruptedAt' = pc
    /\ exitKind' = IF pc \in Handler THEN "uncaught" ELSE "clean"
    /\ ProcessEnds
    /\ UNCHANGED <<client, prev_rgb, attempt, serverProcs, loopEntered,
                   anyDeviceOp>>

\* a lighting-server process dies by itself
ServerDies ==
    /\ pc # "exited"
    /\ serverProcs > 0
    /\ serverProcs' = serverProcs - 1
    /\ UNCHANGED <<pc, exitKind, progVars, current_time, last_check_time,
                   tickHist, suspended, runHist>>

\* the host is suspended while the controller sleeps between two ticks: the
\* clock moves by the length of the suspension, the program does not
Suspend ==
    /\ pc \in {"tick_sleep", "reconnect_sleep", "cooldown"}
    /\ ~suspended
    /\ \E d \in SuspendSeconds :
         /\ current_time' = Older(current_time, d)
         /\ last_check_time' = Older(last_check_time, d)
    /\ suspended' = TRUE
    /\ UNCHANGED <<pc, exitKind, progVars, serverProcs, tickHist, runHist>>

Next ==
    \/ StartSpawn
    \/ StartProbe
    \/ StartProbeSleep
    \/ StartExhausted
    \/ BootCheck
    \/ LoopTop
    \/ RestartKill
    \/ RestartSleep
    \/ RestartReturn
    \/ GetClientTry
    \/ GetClientSleep
    \/ ReconnectSleep
    \/ PrintInfo
    \/ ReadTemp
    \/ ApplySame
    \/ ApplyEnumerate
    \/ ApplyDevice
    \/ ApplyReturn
    \/ TickSleep
    \/ Cooldown
    \/ Interrupt
    \/ ServerDies
    \/ Suspend

Spec == Init /\ [][Next]_vars

\* the controller thread, as opposed to its environment
Step ==
    \/ StartSpawn \/ StartProbe \/ StartProbeSleep \/ StartExhausted
    \/ BootCheck \/ LoopTop \/ RestartKill \/ RestartSleep \/ RestartReturn
    \/ GetClientTry \/ GetClientSleep \/ ReconnectSleep \/ PrintInfo
    \/ ReadTemp \/ ApplySame \/ ApplyEnumerate \/ ApplyDevice \/ ApplyReturn
    \/ TickSleep \/ Cooldown

\* a running thread always takes its next step; no call blocks for ever
FairSpec == Init /\ [][Next]_vars /\ WF_vars(Step)

\* ================================================================ claims

WritePoints == {"print_info", "read_temp", "apply", "apply_dev"}
RestartPoints == {"restart_kill", "rs_sleep", "start_spawn", "start_probe",
                  "sp_sleep", "start_ret"}
OpFailed == enumFailed \/ devHist.raised
\* ------------------------------------- the two pure functions on their own

\* temperatures handed to temperature_to_rgb, in tenths of a degree
UnitTemps == (0 - MaxTenths)..MaxTenths

\* one call of temperature_to_rgb (line 104) or of detect_sleep_wake (line 62)
\* is about to be made: the argument is any temperature, or any stored
\* timestamp up to MaxGap seconds old
UnitInit ==
    /\ pc = "call"
    /\ \/ cpu_temp \in UnitTemps /\ last_check_time = 0
       \/ cpu_temp = NoTemp /\ last_check_time \in (0 - MaxGap)..0
    /\ exitKind = "running"
    /\ client = NoClient
    /\ prev_rgb = Sentinel
    /\ rgb = NoColor
    /\ current_time = 0
    /\ attempt = 0
    /\ startCaller = "boot"
    /\ startResult = FALSE
    /\ serverProcs = 0
    /\ devStatic = NoModes
    /\ devIdx = 0
    /\ lastCall = "none"
    /\ devHist = NoHist
    /\ enumFailed = FALSE
    /\ branch = "start"
    /\ slept = 0
    /\ wakeDetected = FALSE
    /\ restarted = FALSE
    /\ stamped = 0
    /\ suspended = FALSE
    /\ lastTickColor = NoColor
    /\ lastApplied = FALSE
    /\ stale = FALSE
    /\ interruptedAt = "none"
    /\ loopEntered = FALSE
    /\ anyDeviceOp = FALSE

\* line 212: red, green, blue = temperature_to_rgb(cpu_temp)
MapTemperature ==
    /\ pc = "call"
    /\ cpu_temp # NoTemp
    /\ rgb' = temperature_to_rgb(cpu_temp)
    /\ pc' = "returned"
    /\ UNCHANGED <<exitKind, client, prev_rgb, cpu_temp, current_time,
                   last_check_time, attempt, startCaller, startResult,
                   serverProcs, devStatic, devIdx, tickHist, suspended,
                   runHist>>

\* line 191: detect_sleep_wake(last_check_time)
CheckGap ==
    /\ pc = "call"
    /\ cpu_temp = NoTemp
    /\ wakeDetected' = detect_sleep_wake(last_check_time)
    /\ pc' = "returned"
    /\ UNCHANGED <<exitKind, progVars, current_time, last_check_time,
                   serverProcs, lastCall, devHist, enumFailed, branch, slept,
                   restarted, stamped, suspended, runHist>>

UnitNext == MapTemperature \/ CheckGap

UnitSpec == UnitInit /\ [][UnitNext]_vars


\* C1: prev_rgb takes a new value only in a tick whose write to the devices
\* was confirmed: no device raised and at least one device accepted the colour.
C1_AppliedOnlyAfterConfirmedWrite ==
    [][prev_rgb' # prev_rgb =>
          (~devHist.raised /\ devHist.accepted)]_vars

\* C2: once the loop is entered the process ends only by a KeyboardInterrupt,
\* and after any failure inside a tick (connect, enumeration, sensor, write,
\* kill/restart) the loop reaches the start of a further iteration unless it
\* is interrupted.
TickFailure ==
    \/ OpFailed
    \/ branch \in {"reconnect_failed", "no_temp"}
    \/ (pc = "start_ret" /\ startCaller = "restart" /\ ~startResult)
C2_FailuresContained ==
    /\ []((pc = "exited" /\ loopEntered) => interruptedAt # "none")
    /\ ((InLoop /\ TickFailure) ~> (pc = "loop_top" \/ interruptedAt # "none"))
C2_Witness ==
    pc = "loop_top" /\ branch = "exception" /\ enumFailed /\ exitKind = "running"

\* C3: when an operation against the handle failed during a tick (device
\* enumeration, set_mode or set_color), the handle is None when the tick ends.
C3_FailedOpDropsHandle ==
    (pc = "loop_top" /\ OpFailed) => client = NoClient

\* C4: at boot, a failed start_openrgb_server (Popen raised, or all 10 probes
\* failed) ends the process with exit code 1 before any loop iteration and any
\* device operation; a successful one (some probe connected) enters the loop;
\* and exit code 1 arises in no other way.
C4_BootFailureExits ==
    /\ [](exitKind = "exit1" =>
            (pc = "exited" /\ ~loopEntered /\ ~anyDeviceOp /\ attempt \in {0, 10}))
    /\ []((pc = "start_probe" /\ startCaller = "boot" /\ attempt = 10)
            => ~loopEntered)
    /\ [][(pc = "start_ret" /\ startCaller = "boot" /\ pc' # pc) =>
            IF startResult
            THEN attempt < 10 /\ pc' = "loop_top" /\ exitKind' = "running"
            ELSE attempt \in {0, 10} /\ pc' = "exited" /\ exitKind' = "exit1"]_vars
    /\ [][loopEntered' /\ ~loopEntered => (startResult /\ exitKind = "running")]_vars
C4_Witness ==
    pc = "exited" /\ exitKind = "exit1" /\ attempt = 10 /\ ~loopEntered

\* C5: every completed iteration passed through exactly one tick-boundary
\* sleep before the next one starts: 5 s on the branch where reconnecting
\* failed, 2 s on every other branch the claim lists (sleep/wake restart,
\* temperature unavailable, colour unchanged, write succeeded, write failed).
\* Iterations ended by the except Exception handler of line 230 (5 s cooldown)
\* are not among these branches.
C5_OneSleepPerTick ==
    (pc = "loop_top" /\ branch \notin {"start", "exception"}) =>
        IF branch = "reconnect_failed" THEN slept = 5 ELSE slept = 2

\* C6: a KeyboardInterrupt delivered at a sleep point of the loop leads to the
\* clean exit path, never to an uncaught exception.
C6_InterruptAtSleepIsClean ==
    (pc = "exited" /\ interruptedAt \in SleepPoints) => exitKind = "clean"

\* C7 (as stated): a tick whose temperature maps to the colour the previous
\* tick mapped to issues no set_mode or set_color call.
C7_SameColourNoWrite ==
    (rgb # NoColor /\ rgb = lastTickColor) => ~devHist.wrote

\* C7 (amended): the same, provided apply_rgb_color returned normally in the
\* previous tick, so that prev_rgb holds that colour.
C7_SameColourNoWriteAfterReturn ==
    (rgb # NoColor /\ rgb = lastTickColor /\ lastApplied)
        => (~devHist.wrote /\ pc # "apply_dev")
C7_Witness ==
    /\ pc = "tick_sleep" /\ branch = "unchanged"
    /\ rgb = lastTickColor /\ lastApplied

\* C8: in a tick whose sleep/wake check fired, the handle is None while
\* restart_openrgb_server runs, and every device operation uses a handle
\* obtained by a connect made after that restart was invoked.
C8_WakeRestartsBeforeDeviceOps ==
    /\ (pc \in WritePoints => (client = Handle /\ ~stale))
    /\ ((wakeDetected /\ pc \in WritePoints) => restarted)
    /\ ((pc \in RestartPoints /\ startCaller = "restart") =>
            (wakeDetected /\ client = NoClient))
C8_Witness ==
    pc = "apply_dev" /\ devIdx > NumDevices /\ wakeDetected /\ restarted
        /\ client = Handle /\ devHist.accepted

\* C9 (as stated): if the loop keeps ticking and keeps reading a temperature,
\* then whenever no lighting server is alive while the loop runs, with or
\* without a handle, restart_openrgb_server is eventually invoked.
C9_ServerDownLeadsToRestart ==
    ([]<>(pc = "loop_top") /\ []<>(pc = "apply"))
        => ((InLoop /\ serverProcs = 0) ~> restarted)

\* C9 (amended): whenever no lighting server is alive and the loop holds no
\* handle, restart_openrgb_server is eventually invoked unless the loop is
\* interrupted: the exhausted reconnect makes the iteration longer than 30 s,
\* so the next sleep/wake check fires.
C9_NoHandleServerDownLeadsToRestart ==
    (InLoop /\ serverProcs = 0 /\ client = NoClient)
        ~> (restarted \/ pc = "exited")
C9_Witness ==
    pc = "restart_kill" /\ restarted /\ ~suspended /\ serverProcs = 0
        /\ client = NoClient

\* C10: start_openrgb_server spawns a server process only when no lighting
\* server is running (so that at most one is ever alive).
C10_SpawnOnlyWhenNoneRunning ==
    [][serverProcs' > serverProcs => serverProcs = 0]_vars

\* C11: restart_openrgb_server returns only through start_openrgb_server,
\* whatever the terminate-by-name step did (pkill exit status, or subprocess.run
\* raising).
C11_RestartAlwaysStarts ==
    [][(startCaller = "restart" /\ pc' = "start_ret" /\ pc # "start_ret")
          => pc \in {"start_spawn", "start_probe"}]_vars

\* C17: the sleep/wake check fires only if the host was suspended since the
\* timestamp it compares against was taken, on every branch of the previous
\* iteration.
C17_NoFalseWake ==
    (wakeDetected /\ pc = "restart_kill") => suspended

\* C12 (as stated): in the device loop of apply_rgb_color every device that
\* offers "Static" receives set_mode and then set_color, whatever happened to
\* the devices before it; a device without "Static" receives neither.
C12_EveryStaticDeviceGetsBothCalls ==
    [][(pc = "apply_dev" /\ devIdx <= NumDevices /\ devIdx' # devIdx
                         /\ pc' # "exited") =>
          /\ devIdx' = devIdx + 1
          /\ IF devStatic[devIdx]
             THEN lastCall' \in {"mode_color", "color_raised"}
             ELSE lastCall' = "skipped" /\ devHist' = devHist]_vars

\* C12 (amended): every device is visited whatever happened to the devices
\* before it; one that offers "Static" receives set_mode, and then set_color
\* unless its own set_mode raised; one without "Static" receives neither; and
\* the new colour is returned only after the last device.
C12_EveryStaticDeviceIsAttempted ==
    /\ [][(pc = "apply_dev" /\ devIdx <= NumDevices /\ devIdx' # devIdx
                             /\ pc' # "exited") =>
            /\ devIdx' = devIdx + 1
            /\ pc' = "apply_dev"
            /\ IF devStatic[devIdx]
               THEN /\ lastCall' \in {"mode_color", "color_raised", "mode_raised"}
                    /\ devHist'.wrote
               ELSE lastCall' = "skipped" /\ devHist' = devHist]_vars
    /\ [][prev_rgb' # prev_rgb => (pc = "apply_dev" /\ devIdx = NumDevices + 1)]_vars
    /\ []((pc = "apply_dev" /\ devIdx = NumDevices + 1) =>
            (devHist.wrote <=> \E d \in Devices : devStatic[d]))
C12_Witness ==
    /\ pc = "apply_dev" /\ devIdx = NumDevices + 1
    /\ devHist.raised /\ lastCall = "mode_color"
    /\ \A d \in Devices : devStatic[d]


\* C15: every call of start_openrgb_server and of get_rgb_client makes at most
\* 10 connection attempts.  The attempt counter starts at 0 and only grows
\* inside the call, each attempt either ends the call or is followed by the
\* next attempt, the first attempt that connects returns success at once, and
\* failure (False / None) is returned exactly when the 10th attempt has failed.
C15_AtMostTenAttempts ==
    /\ [](pc = "start_probe" => attempt \in 0..10)
    /\ [](pc = "sp_sleep" => attempt \in 0..9)
    /\ [](pc \in {"get_client", "gc_sleep"} => attempt \in 0..9)
    /\ [][(pc' = "start_probe" /\ pc # "sp_sleep" /\ pc # "start_probe")
             => attempt' = 0]_vars
    /\ [][(pc' = "get_client" /\ pc # "gc_sleep" /\ pc # "get_client")
             => attempt' = 0]_vars
    /\ [][(pc = "start_probe" /\ pc' # pc /\ pc' # "exited") =>
             \/ pc' = "start_ret" /\ startResult' /\ attempt < 10
             \/ pc' = "start_ret" /\ ~startResult' /\ attempt = 10
             \/ pc' = "sp_sleep" /\ attempt < 10 /\ attempt' = attempt]_vars
    /\ [][(pc = "sp_sleep" /\ pc' # pc /\ pc' # "exited") =>
             (pc' = "start_probe" /\ attempt' = attempt + 1)]_vars
    /\ [][(pc = "get_client" /\ pc' # pc /\ pc' # "exited") =>
             \/ pc' = "print_info" /\ client' = Handle
             \/ pc' = "reconnect_sleep" /\ client' = NoClient /\ attempt = 9
             \/ pc' = "gc_sleep" /\ attempt < 9 /\ attempt' = attempt]_vars
    /\ [][(pc = "gc_sleep" /\ pc' # pc /\ pc' # "exited") =>
             (pc' = "get_client" /\ attempt' = attempt + 1)]_vars
C15_Witness ==
    pc = "start_ret" /\ ~startResult /\ attempt = 10 /\ startCaller = "restart"


\* C19: prev_rgb changes only where apply_rgb_color returns the colour it has
\* just applied: handle invalidation, reconnect and server restart leave it
\* alone and it never goes back to the sentinel.  Hence a tick that got a fresh
\* connection or a restarted server and whose colour equals prev_rgb makes no
\* device call at all.
C19_PrevColourSurvivesReconnect ==
    /\ [][(prev_rgb' # prev_rgb) =>
            (pc = "apply_dev" /\ pc' = "tick_sleep" /\ prev_rgb' = rgb
             /\ prev_rgb' # Sentinel)]_vars
    /\ [][(client' # client \/ restarted' # restarted \/ stale' # stale)
            => prev_rgb' = prev_rgb]_vars
    /\ []((pc = "tick_sleep" /\ rgb = prev_rgb /\ branch = "unchanged")
            => (~devHist.wrote /\ ~enumFailed /\ lastCall = "none"))
C19_Witness ==
    /\ pc = "tick_sleep" /\ branch = "unchanged"
    /\ restarted /\ wakeDetected
    /\ prev_rgb # Sentinel /\ rgb = prev_rgb
    /\ ~devHist.wrote


C18_StampedOncePerIteration ==
    /\ [](pc \in {"get_client", "gc_sleep", "reconnect_sleep", "print_info",
                  "read_temp", "apply", "apply_dev", "tick_sleep", "cooldown"}
            => stamped = 1)
    /\ []((pc = "loop_top" /\ branch # "start") => stamped = 1)
    /\ []((pc \in {"restart_kill", "rs_sleep"}
           \/ (startCaller = "restart"
               /\ pc \in {"start_spawn", "start_probe", "sp_sleep", "start_ret"}))
            => stamped = 0)
    /\ [][(stamped' = stamped + 1)
            => (last_check_time' = current_time' /\ pc \in {"loop_top", "start_ret"}
                /\ (pc = "start_ret" => current_time' = current_time))]_vars
    /\ [][(stamped' = stamped /\ pc # "loop_top" /\ pc' # "exited") =>
            \E d \in 0..(MaxGap + 1) :
               /\ last_check_time' = Older(last_check_time, d)
               /\ current_time' = Older(current_time, d)]_vars
    /\ [][(pc = "loop_top" /\ pc' = "restart_kill")
            => last_check_time' = last_check_time]_vars
C18_Witness ==
    /\ pc = "reconnect_sleep" /\ branch = "reconnect_failed"
    /\ wakeDetected /\ stamped = 1
    /\ current_time < 0 - 5 * 9 /\ last_check_time = current_time


\* C13: detect_sleep_wake returns true exactly when the stored timestamp is
\* more than 30 seconds older than the current time: false for a gap of 29 and
\* of exactly 30 seconds, true for 31.
C13_WakeIffGapOver30 ==
    (pc = "returned" /\ cpu_temp = NoTemp) =>
        /\ wakeDetected <=> (current_time - last_check_time > 30)
        /\ current_time - last_check_time \in {29, 30} => ~wakeDetected
        /\ current_time - last_check_time = 31 => wakeDetected
C13_Witness ==
    pc = "returned" /\ cpu_temp = NoTemp /\ current_time - last_check_time = 30
       /\ ~wakeDetected

\* C16: temperature_to_rgb maps every temperature to one of 7 fixed colours,
\* the band of a temperature being decided by the inclusive upper bounds 30,
\* 40, 45, 50, 60 and 65 degrees; every one of the 7 colours is the image of
\* some temperature and none of them is the sentinel (-1,-1,-1).
C16_SevenInclusiveBands ==
    LET Bands == <<<<0, 0, 255>>, <<63, 0, 192>>, <<0, 255, 0>>,
                   <<127, 255, 0>>, <<255, 255, 0>>, <<255, 127, 0>>,
                   <<255, 0, 0>>>>
        Upper == <<300, 400, 450, 500, 600, 650>>
        Band(t) == 1 + Cardinality({k \in 1..6 : t > Upper[k]})
    IN  (pc = "returned" /\ cpu_temp # NoTemp) =>
            /\ rgb = Bands[Band(cpu_temp)]
            /\ rgb # Sentinel
            /\ cpu_temp = 300 => rgb = <<0, 0, 255>>
            /\ cpu_temp = 301 => rgb = <<63, 0, 192>>
            /\ cpu_temp = 650 => rgb = <<255, 127, 0>>
            /\ cpu_temp = 651 => rgb = <<255, 0, 0>>
            /\ Cardinality({temperature_to_rgb(t) : t \in UnitTemps}) = 7
C16_Witness ==
    pc = "returned" /\ cpu_temp = 650 /\ rgb = <<255, 127, 0>>

====
